---------------------------- MODULE Spec2Model ----------------------------
(***************************************************************************)
(* hidkitd: a daemon that registers an arrival and a removal notification  *)
(* for IOHIDUserDevice services matching the command-line filters and runs *)
(* a script per matched service (src/hidkitd.c).                           *)
(*                                                                         *)
(* The command line is a sequence argv[1..argc-1]: the odd positions hold  *)
(* flags (strings), the even positions hold values, each a sequence of     *)
(* one-character strings, so that strtol is computed and not assumed.      *)
(* A `const char *` field of AppConfig is the index in argv it points to,  *)
(* 0 for NULL.                                                             *)
(***************************************************************************)
EXTENDS Integers, Sequences, FiniteSets, TLC

(***************************************************************************)
(* Bounds of the model.                                                    *)
(***************************************************************************)
\* device handles (io_service_t) the notification service hands out in a run
MaxHandles == 2

(***************************************************************************)
(* Text: values of the command line and properties of devices.             *)
(***************************************************************************)
T1234 == <<"1", "2", "3", "4">>
T5678 == <<"5", "6", "7", "8">>
T9999 == <<"9", "9", "9", "9">>
TZero == <<"0">>
TNeg  == <<"-", "5">>
TAbc  == <<"a", "b", "c">>
TOne  == <<"1">>
TSix  == <<" ", "+", "6", "x">>
TKbd  == <<"k", "b", "d">>
TBb   == <<"b", "b">>
TConn == <<"/", "c">>
TDisc == <<"/", "d">>

Digits == <<"0", "1", "2", "3", "4", "5", "6", "7", "8", "9">>

IsDigit(c) == \E k \in 1..10 : Digits[k] = c

DigitVal(c) == (CHOOSE k \in 1..10 : Digits[k] = c) - 1

IsSpace(c) == c = " "

RECURSIVE SkipSpace(_)
SkipSpace(s) ==
    IF s # <<>> /\ IsSpace(Head(s)) THEN SkipSpace(Tail(s)) ELSE s

RECURSIVE ParseDigits(_, _)
ParseDigits(s, acc) ==
    IF s # <<>> /\ IsDigit(Head(s))
    THEN ParseDigits(Tail(s), acc * 10 + DigitVal(Head(s)))
    ELSE acc

\* strtol(val, NULL, 10): leading white space, an optional sign, then the
\* longest run of decimal digits; 0 when there is none.  The texts of the
\* model are short, so the clamp to LONG_MIN..LONG_MAX is never reached.
Strtol(val) ==
    LET t == SkipSpace(val) IN
    IF t # <<>> /\ Head(t) = "-" THEN 0 - ParseDigits(Tail(t), 0)
    ELSE IF t # <<>> /\ Head(t) = "+" THEN ParseDigits(Tail(t), 0)
    ELSE ParseDigits(t, 0)

(***************************************************************************)
(* AppConfig and the command lines of the model.                           *)
(***************************************************************************)
NULL == 0

\* AppConfig config = {0};
ZeroConfig ==
    [vendorID |-> 0, productID |-> 0, usagePage |-> 0, usage |-> 0,
     productName |-> NULL, deviceAddress |-> NULL,
     onConnectScript |-> NULL, onDisconnectScript |-> NULL]

CommandLines ==
    { <<>>,
      <<"--help">>,
      <<"--vendor-id">>,
      <<"--bogus", TOne>>,
      <<"--help", TOne>>,
      <<"--on-connect", TConn>>,
      <<"--vendor-id", T1234>>,
      <<"--vendor-id", TZero, "--on-connect", TConn>>,
      <<"--vendor-id", TAbc, "--on-disconnect", TDisc>>,
      <<"--vendor-id", T1234, "--on-connect", TConn, "--on-disconnect">>,
      <<"--vendor-id", T1234, "--on-connect", TConn, "--bogus", TOne>>,
      <<"--vendor-id", T1234, "--product-id", T5678, "--on-connect", TConn>>,
      <<"--vendor-id", T1234, "--on-disconnect", TDisc>>,
      <<"--vendor-id", T1234, "--on-connect", TConn, "--on-disconnect", TDisc>>,
      <<"--vendor-id", TNeg, "--on-connect", TConn>>,
      <<"--name", TKbd, "--usage-page", TOne, "--usage", TSix,
        "--on-connect", TConn, "--on-disconnect", TDisc>>,
      <<"--address", TBb, "--on-disconnect", TDisc>>,
      <<"--product-id", T9999, "--vendor-id", T9999, "--on-connect", TConn>> }

\* the command lines whose runs are checked for progress: both scripts, and
\* the on-connect script alone
FairCommandLines ==
    { <<"--vendor-id", T1234, "--on-connect", TConn, "--on-disconnect", TDisc>>,
      <<"--address", TBb, "--on-connect", TConn>> }

\* nothing, or the flag with one of the values
Opt(flag, vals) == {<<>>} \cup {<<flag, v>> : v \in vals}

\* every combination of the six filters, each absent or with one of its
\* values, followed by --on-connect /c
FilterCommandLines ==
    {a \o b \o c \o d \o e \o f \o <<"--on-connect", TConn>> :
        a \in Opt("--vendor-id", {T1234, TNeg}),
        b \in Opt("--product-id", {T5678, T9999}),
        c \in Opt("--usage-page", {TOne}),
        d \in Opt("--usage", {TSix, TZero}),
        e \in Opt("--name", {TKbd}),
        f \in Opt("--address", {TBb})}

(***************************************************************************)
(* Devices and matching dictionaries.                                      *)
(***************************************************************************)
Devices == {"kbd", "mse"}

\* the registry properties of the devices of the model
DeviceProps(d) ==
    IF d = "kbd"
    THEN [IOProviderClass |-> "IOHIDUserDevice", VendorID |-> 1234,
          ProductID |-> 5678, PrimaryUsagePage |-> 1, PrimaryUsage |-> 6,
          Product |-> TKbd, DeviceAddress |-> <<"a", "a">>]
    ELSE [IOProviderClass |-> "IOHIDUserDevice", VendorID |-> 1234,
          ProductID |-> 9999, PrimaryUsagePage |-> 1, PrimaryUsage |-> 2,
          Product |-> <<"m", "s", "e">>, DeviceAddress |-> TBb]

FilterKeys ==
    {"VendorID", "ProductID", "PrimaryUsagePage", "PrimaryUsage", "Product",
     "DeviceAddress"}

\* a NULL CFMutableDictionaryRef: the dictionary with no key (a dictionary
\* IOServiceMatching made always holds IOProviderClass)
NullDict == [k \in {} |-> 0]

\* IOServiceMatching("IOHIDUserDevice")
BaseDict == [k \in {"IOProviderClass"} |-> "IOHIDUserDevice"]

\* CFDictionarySetValue(dict, key, val)
SetValue(dict, key, val) ==
    [k \in DOMAIN dict \cup {key} |-> IF k = key THEN val ELSE dict[k]]

\* the six ifs of createMatchingDictionary, each on the dictionary so far
SetVendorID(cfg, dict) ==
    IF cfg.vendorID > 0 THEN SetValue(dict, "VendorID", cfg.vendorID) ELSE dict

\* the ProductID block left out
SetProductIDDropped(cfg, dict) == dict

SetProductID(cfg, dict) ==
    IF cfg.productID > 0 THEN SetValue(dict, "ProductID", cfg.productID) ELSE dict

SetUsagePage(cfg, dict) ==
    IF cfg.usagePage > 0
    THEN SetValue(dict, "PrimaryUsagePage", cfg.usagePage) ELSE dict

\* the key of the block above pasted into this one
SetUsageWrongKey(cfg, dict) ==
    IF cfg.usage > 0 THEN SetValue(dict, "PrimaryUsagePage", cfg.usage) ELSE dict

SetUsage(cfg, dict) ==
    IF cfg.usage > 0 THEN SetValue(dict, "PrimaryUsage", cfg.usage) ELSE dict

\* args is the command line the const char * fields point into
SetProduct(cfg, args, dict) ==
    IF cfg.productName # NULL
    THEN SetValue(dict, "Product", args[cfg.productName]) ELSE dict

SetDeviceAddress(cfg, args, dict) ==
    IF cfg.deviceAddress # NULL
    THEN SetValue(dict, "DeviceAddress", args[cfg.deviceAddress]) ELSE dict

\* createMatchingDictionary(config), base being what IOServiceMatching returned
createMatchingDictionary(cfg, args, base) ==
    IF base = NullDict
    THEN NullDict
    ELSE SetDeviceAddress(cfg, args,
           SetProduct(cfg, args,
             SetUsage(cfg,
               SetUsagePage(cfg,
                 SetProductID(cfg,
                   SetVendorID(cfg, base))))))

\* the notification service's test of a device against a dictionary: every
\* key of the dictionary is a property of the device with an equal value
Matches(d, dict) ==
    \A k \in DOMAIN dict :
        k \in DOMAIN DeviceProps(d) /\ DeviceProps(d)[k] = dict[k]

(***************************************************************************)
(* The state.                                                              *)
(***************************************************************************)
VARIABLES
    argv,       \* argv[1..argc-1]
    pc,         \* position of main
    i,          \* the loop index of main's parse loop
    config,     \* AppConfig
    status,     \* what main returned, once pc = "exited"
    matchDict,  \* main's matchDict, NullDict before line 167
    termDict,   \* main's termDict, NullDict before line 172
    iterator,   \* main's matchedIterator and terminatedIterator: the kernel
                \* iterator each names, "uninit" while never written
    subQuery,   \* the dictionary of each registered notification
    queue,      \* the handles each kernel iterator has yet to yield
    present,    \* the devices attached
    handles,    \* every io_service_t handed out: what was done with it
    cb,         \* the callback executing, if any, and its position
    script,     \* the child process system() waits for
    sysret,     \* what the last system() returned
    batch       \* the handles IOIteratorNext yielded to the callback
                \* executing (or the last one that returned)

vars ==
    <<argv, pc, i, config, status, matchDict, termDict, iterator, subQuery,
      queue, present, handles, cb, script, sysret, batch>>

ioVars ==
    <<matchDict, termDict, iterator, subQuery, queue, present, handles, cb,
      script, sysret, batch>>

argc == Len(argv) + 1

Kinds == {"matched", "terminated"}

Idle == [kind |-> "none", iter |-> "none", pc |-> "none", service |-> 0]

Init ==
    /\ argv \in CommandLines
    /\ pc = "start"
    /\ i = 1
    /\ config = ZeroConfig
    /\ status = 0
    /\ matchDict = NullDict
    /\ termDict = NullDict
    /\ iterator = [matched |-> "uninit", terminated |-> "uninit"]
    /\ subQuery = [matched |-> NullDict, terminated |-> NullDict]
    /\ queue = [matched |-> <<>>, terminated |-> <<>>]
    /\ present \in SUBSET Devices
    /\ handles = <<>>
    /\ cb = Idle
    /\ script = "none"
    /\ sysret = "none"
    /\ batch = <<>>

(***************************************************************************)
(* main: the command line.                                                 *)
(***************************************************************************)
\* return <code> from main
Exit(code) == pc' = "exited" /\ status' = code

\* if (argc == 1 || (argc == 2 && strcmp(argv[1], "--help") == 0))
IsHelp == argc = 1 \/ (argc = 2 /\ argv[1] = "--help")

MainStart ==
    /\ pc = "start"
    /\ IF IsHelp
       THEN Exit(0)
       ELSE pc' = "parse" /\ status' = status
    /\ UNCHANGED <<argv, i, config>>
    /\ UNCHANGED ioVars

\* the if / else-if chain of the parse loop: the config after the flag at
\* args[k] and its value at args[k+1]
SetFlag(cfg, args, k) ==
    LET flag == args[k]
        val == args[k + 1]
    IN
    IF flag = "--vendor-id" THEN [cfg EXCEPT !.vendorID = Strtol(val)]
    ELSE IF flag = "--product-id" THEN [cfg EXCEPT !.productID = Strtol(val)]
    ELSE IF flag = "--usage-page" THEN [cfg EXCEPT !.usagePage = Strtol(val)]
    ELSE IF flag = "--usage" THEN [cfg EXCEPT !.usage = Strtol(val)]
    ELSE IF flag = "--name" THEN [cfg EXCEPT !.productName = k + 1]
    ELSE IF flag = "--address" THEN [cfg EXCEPT !.deviceAddress = k + 1]
    ELSE IF flag = "--on-connect" THEN [cfg EXCEPT !.onConnectScript = k + 1]
    ELSE IF flag = "--on-disconnect" THEN [cfg EXCEPT !.onDisconnectScript = k + 1]
    ELSE cfg

\* the final else of the chain left out: a flag no branch knows is skipped
KnownFlagsNoElse ==
    {"--vendor-id", "--product-id", "--usage-page", "--usage", "--name",
     "--address", "--on-connect", "--on-disconnect", "--bogus", "--help"}

\* the flags a branch of the chain compares with
KnownFlags ==
    {"--vendor-id", "--product-id", "--usage-page", "--usage", "--name",
     "--address", "--on-connect", "--on-disconnect"}

\* one iteration of for (int i = 1; i < argc; i += 2)
MainParse ==
    /\ pc = "parse"
    /\ IF i < argc
       THEN IF i + 1 >= argc
            THEN Exit(1) /\ UNCHANGED <<i, config>>
            ELSE IF argv[i] \in KnownFlags
                 THEN /\ config' = SetFlag(config, argv, i)
                      /\ i' = i + 2
                      /\ UNCHANGED <<pc, status>>
                 ELSE Exit(1) /\ UNCHANGED <<i, config>>
       ELSE pc' = "check_filter" /\ UNCHANGED <<i, config, status>>
    /\ UNCHANGED argv
    /\ UNCHANGED ioVars

\* the config the parse loop leaves, from index k on, for a command line of
\* known flags each with its value
RECURSIVE ParseFrom(_, _, _)
ParseFrom(cfg, args, k) ==
    IF k + 1 > Len(args) THEN cfg ELSE ParseFrom(SetFlag(cfg, args, k), args, k + 2)

ConfigOf(args) == ParseFrom(ZeroConfig, args, 1)

\* the ! before config.productName left out
NoFilterNameNotNegated(cfg) ==
    /\ cfg.vendorID = 0
    /\ cfg.productID = 0
    /\ cfg.productName # NULL
    /\ cfg.deviceAddress = NULL
    /\ cfg.usagePage = 0
    /\ cfg.usage = 0

\* the condition of the if at line 153
NoFilter(cfg) ==
    /\ cfg.vendorID = 0
    /\ cfg.productID = 0
    /\ cfg.productName = NULL
    /\ cfg.deviceAddress = NULL
    /\ cfg.usagePage = 0
    /\ cfg.usage = 0

\* the ! before config.onDisconnectScript left out
NoActionNotNegated(cfg) ==
    cfg.onConnectScript = NULL /\ cfg.onDisconnectScript # NULL

\* the condition of the if at line 156
NoAction(cfg) == cfg.onConnectScript = NULL /\ cfg.onDisconnectScript = NULL

MainCheckFilter ==
    /\ pc = "check_filter"
    /\ IF NoFilter(config)
       THEN Exit(1)
       ELSE pc' = "check_action" /\ status' = status
    /\ UNCHANGED <<argv, i, config>>
    /\ UNCHANGED ioVars

MainCheckAction ==
    /\ pc = "check_action"
    /\ IF NoAction(config)
       THEN Exit(1)
       ELSE pc' = "match_dict" /\ status' = status
    /\ UNCHANGED <<argv, i, config>>
    /\ UNCHANGED ioVars

(***************************************************************************)
(* The notification service: handles, iterators, devices coming and going. *)
(***************************************************************************)
Registered(kind) == subQuery[kind] # NullDict

\* a fresh io_service_t for device d, yielded by the iterator of `kind`
NewHandle(d, kind, atSubscribe) ==
    [dev |-> d, kind |-> kind, initial |-> atSubscribe, runs |-> 0,
     launched |-> <<>>, released |-> 0, phase |-> "none", by |-> "none"]

\* the orders in which an iterator may yield the devices of S
Orderings(S) ==
    {o \in [1..Cardinality(S) -> S] : {o[k] : k \in 1..Cardinality(S)} = S}

\* a device is attached; the arrival notification, if registered with a
\* dictionary the device matches, queues a handle for it.  Devices that came
\* or went before main reached line 167 are the choice of `present` in Init.
DeviceArrive(d) ==
    /\ pc \in {"match_dict", "add_matched", "drain_matched", "term_dict",
               "add_terminated", "drain_terminated", "run_loop", "monitoring"}
    /\ d \notin present
    /\ present' = present \cup {d}
    /\ IF Registered("matched") /\ Matches(d, subQuery["matched"])
       THEN /\ Len(handles) < MaxHandles
            /\ handles' = Append(handles, NewHandle(d, "matched", FALSE))
            /\ queue' = [queue EXCEPT
                           !["matched"] = Append(@, Len(handles) + 1)]
       ELSE UNCHANGED <<handles, queue>>
    /\ UNCHANGED <<argv, pc, i, config, status, matchDict, termDict, iterator,
                   subQuery, cb, script, sysret, batch>>

\* a device is detached; the removal notification, likewise
DeviceDepart(d) ==
    /\ pc \in {"match_dict", "add_matched", "drain_matched", "term_dict",
               "add_terminated", "drain_terminated", "run_loop", "monitoring"}
    /\ d \in present
    /\ present' = present \ {d}
    /\ IF Registered("terminated") /\ Matches(d, subQuery["terminated"])
       THEN /\ Len(handles) < MaxHandles
            /\ handles' = Append(handles, NewHandle(d, "terminated", FALSE))
            /\ queue' = [queue EXCEPT
                           !["terminated"] = Append(@, Len(handles) + 1)]
       ELSE UNCHANGED <<handles, queue>>
    /\ UNCHANGED <<argv, pc, i, config, status, matchDict, termDict, iterator,
                   subQuery, cb, script, sysret, batch>>

(***************************************************************************)
(* main: the notification port, the two notifications, the run loop.       *)
(***************************************************************************)
\* CFMutableDictionaryRef matchDict = createMatchingDictionary(&config);
\* IOServiceMatching returns a dictionary or NULL
MainMatchDict ==
    /\ pc = "match_dict"
    /\ \E base \in {BaseDict, NullDict} :
          matchDict' = createMatchingDictionary(config, argv, base)
    /\ pc' = "add_matched"
    /\ UNCHANGED <<argv, i, config, status, termDict, iterator, subQuery,
                   queue, present, handles, cb, script, sysret, batch>>

\* IOServiceAddMatchingNotification(notifyPort, type, dict, callback, &config,
\* &it): kIOReturnBadArgument for a NULL dictionary, and the service may
\* refuse; then *it is not written.  Registered, the iterator holds one
\* handle per device attached and matching (arrival), none (removal).
AddMatchingNotification(kind, dict) ==
    \/ /\ dict # NullDict
       /\ subQuery' = [subQuery EXCEPT ![kind] = dict]
       /\ iterator' = [iterator EXCEPT ![kind] = kind]
       /\ IF kind = "matched"
          THEN LET S == {d \in present : Matches(d, dict)} IN
               /\ Len(handles) + Cardinality(S) <= MaxHandles
               /\ \E o \in Orderings(S) :
                     /\ handles' = handles \o
                           [k \in 1..Cardinality(S) |->
                               NewHandle(o[k], "matched", TRUE)]
                     /\ queue' = [queue EXCEPT ![kind] =
                           [k \in 1..Cardinality(S) |-> Len(handles) + k]]
          ELSE UNCHANGED <<handles, queue>>
    \/ /\ UNCHANGED <<subQuery, iterator, handles, queue>>

\* the call of deviceConnected at line 170 left out
AfterAddMatchedNoDrain == "term_dict"

\* what main does with the kern_return_t of IOServiceAddMatchingNotification:
\* nothing, it goes on to the next statement
AfterAddMatched == "drain_matched"

AfterAddTerminated == "drain_terminated"

MainAddMatched ==
    /\ pc = "add_matched"
    /\ AddMatchingNotification("matched", matchDict)
    /\ pc' = AfterAddMatched
    /\ UNCHANGED <<argv, i, config, status, matchDict, termDict, present, cb,
                   script, sysret, batch>>

\* the values an uninitialized io_iterator_t may hold: no iterator at all, or
\* the name of an iterator the process owns
Garbage == {"invalid"} \cup {k \in Kinds : iterator[k] = k}

\* the io_iterator_t main passes to the callback at lines 170 and 175
IteratorArg(kind) ==
    IF iterator[kind] = "uninit" THEN Garbage ELSE {iterator[kind]}

Callback(kind) == IF kind = "matched" THEN "connect" ELSE "disconnect"

\* deviceConnected(&config, matchedIterator);
MainDrainMatched ==
    /\ pc = "drain_matched"
    /\ cb = Idle
    /\ \E it \in IteratorArg("matched") :
          cb' = [kind |-> "connect", iter |-> it, pc |-> "next", service |-> 0]
    /\ batch' = <<>>
    /\ UNCHANGED <<argv, pc, i, config, status, matchDict, termDict, iterator,
                   subQuery, queue, present, handles, script, sysret>>

\* the second dictionary built from a config the first registration cleared
MainTermDictFromClearedConfig ==
    /\ pc = "term_dict"
    /\ \E base \in {BaseDict, NullDict} :
          termDict' = createMatchingDictionary(ZeroConfig, argv, base)
    /\ pc' = "add_terminated"
    /\ UNCHANGED <<argv, i, config, status, matchDict, iterator, subQuery,
                   queue, present, handles, cb, script, sysret, batch>>

\* CFMutableDictionaryRef termDict = createMatchingDictionary(&config);
MainTermDict ==
    /\ pc = "term_dict"
    /\ \E base \in {BaseDict, NullDict} :
          termDict' = createMatchingDictionary(config, argv, base)
    /\ pc' = "add_terminated"
    /\ UNCHANGED <<argv, i, config, status, matchDict, iterator, subQuery,
                   queue, present, handles, cb, script, sysret, batch>>

MainAddTerminated ==
    /\ pc = "add_terminated"
    /\ AddMatchingNotification("terminated", termDict)
    /\ pc' = AfterAddTerminated
    /\ UNCHANGED <<argv, i, config, status, matchDict, termDict, present, cb,
                   script, sysret, batch>>

\* deviceDisconnected(&config, terminatedIterator);
MainDrainTerminated ==
    /\ pc = "drain_terminated"
    /\ cb = Idle
    /\ \E it \in IteratorArg("terminated") :
          cb' = [kind |-> "disconnect", iter |-> it, pc |-> "next",
                 service |-> 0]
    /\ batch' = <<>>
    /\ UNCHANGED <<argv, pc, i, config, status, matchDict, termDict, iterator,
                   subQuery, queue, present, handles, script, sysret>>

\* printf("DAEMON: Monitoring started.\n"); CFRunLoopRun();
MainRunLoop ==
    /\ pc = "run_loop"
    /\ pc' = "monitoring"
    /\ UNCHANGED <<argv, i, config, status>>
    /\ UNCHANGED ioVars

\* callbacks dispatched while another one is still executing (the run loop
\* run on a second thread, or re-entered from a callback)
LoopFreeReentrant == TRUE

\* CFRunLoopRun() runs on main's thread and calls one callback at a time:
\* it takes the next notification when the callback it called has returned
LoopFree == cb = Idle

\* the run loop delivers a notification: the callback registered for `kind`
\* is called with that notification's iterator
RunLoopDispatch(kind) ==
    /\ pc = "monitoring"
    /\ LoopFree
    /\ Registered(kind)
    /\ queue[kind] # <<>>
    /\ cb' = [kind |-> Callback(kind), iter |-> kind, pc |-> "next",
              service |-> 0]
    /\ batch' = <<>>
    /\ UNCHANGED <<argv, pc, i, config, status, matchDict, termDict, iterator,
                   subQuery, queue, present, handles, script, sysret>>

(***************************************************************************)
(* deviceConnected, deviceDisconnected and run_script.                     *)
(***************************************************************************)
\* CFRunLoopRun() left out: main returns after the second drain
AfterCallbackNoLoop(p) ==
    IF p = "drain_matched" THEN "term_dict"
    ELSE IF p = "drain_terminated" THEN "exited"
    ELSE p

\* where main goes on when the callback it called returns
AfterCallback(p) ==
    IF p = "drain_matched" THEN "term_dict"
    ELSE IF p = "drain_terminated" THEN "run_loop"
    ELSE p

\* the handles IOIteratorNext(it) has yet to return
Pending(it) == IF it \in Kinds THEN queue[it] ELSE <<>>

\* while ((service = IOIteratorNext(iterator))): the next handle, or 0 and
\* the callback returns
CallbackNext ==
    /\ cb.pc = "next"
    /\ IF Pending(cb.iter) # <<>>
       THEN /\ cb' = [cb EXCEPT !.service = Head(Pending(cb.iter)),
                                !.pc = "run"]
            /\ queue' = [queue EXCEPT ![cb.iter] = Tail(@)]
            /\ batch' = Append(batch, Head(Pending(cb.iter)))
            /\ pc' = pc
       ELSE /\ cb' = Idle
            /\ pc' = AfterCallback(pc)
            /\ UNCHANGED <<queue, batch>>
    /\ UNCHANGED <<argv, i, config, status, matchDict, termDict, iterator,
                   subQuery, present, handles, script, sysret>>

\* config->onConnectScript in deviceConnected, config->onDisconnectScript in
\* deviceDisconnected
ScriptOf(kind, cfg) ==
    IF kind = "connect" THEN cfg.onConnectScript ELSE cfg.onDisconnectScript

\* if (!scriptPath) return;
Launches(scriptPath) == scriptPath # NULL

\* run_script(script) up to system(command): nothing for a NULL path, else
\* the command is started and system() waits for it; the child may never end
CallbackRunScript ==
    /\ cb.pc = "run"
    /\ LET path == ScriptOf(cb.kind, config) IN
       IF Launches(path)
       THEN /\ handles' = [handles EXCEPT
                 ![cb.service].runs = @ + 1,
                 ![cb.service].phase = pc,
                 ![cb.service].by = cb.kind,
                 ![cb.service].launched = Append(@, argv[path])]
            /\ script' \in {"running", "hung"}
            /\ cb' = [cb EXCEPT !.pc = "system"]
       ELSE /\ handles' = [handles EXCEPT
                 ![cb.service].runs = @ + 1,
                 ![cb.service].phase = pc,
                 ![cb.service].by = cb.kind]
            /\ script' = script
            /\ cb' = [cb EXCEPT !.pc = "release"]
    /\ UNCHANGED <<argv, pc, i, config, status, matchDict, termDict, iterator,
                   subQuery, queue, present, sysret, batch>>

\* what system(command) can return: the command ran and exited 0, it could
\* not be started (no such file, fork or exec error), it exited non-zero
Outcomes == {"ok", "launch_failed", "exit_nonzero"}

\* a failed script makes the loop skip the release: if (system(c)) continue;
AfterSystemSkipRelease(outcome) ==
    IF outcome = "ok" THEN "release" ELSE "next"

\* what run_script and its caller do with the value of system(): it is
\* dropped, and the callback goes on to IOObjectRelease
AfterSystem(outcome) == "release"

\* system(command) returns
ScriptExit ==
    /\ cb.pc = "system"
    /\ script = "running"
    /\ \E outcome \in Outcomes :
          /\ sysret' = outcome
          /\ cb' = [cb EXCEPT !.pc = AfterSystem(outcome)]
    /\ script' = "none"
    /\ UNCHANGED <<argv, pc, i, config, status, matchDict, termDict, iterator,
                   subQuery, queue, present, handles, batch>>

\* IOObjectRelease left out
ReleasedNever(n) == n

\* the references to the handle after IOObjectRelease(service), n before
Released(n) == n + 1

\* IOObjectRelease(service);
CallbackRelease ==
    /\ cb.pc = "release"
    /\ handles' = [handles EXCEPT
          ![cb.service].released = Released(@)]
    /\ cb' = [cb EXCEPT !.pc = "next"]
    /\ UNCHANGED <<argv, pc, i, config, status, matchDict, termDict, iterator,
                   subQuery, queue, present, script, sysret, batch>>

(***************************************************************************)
(* The program.                                                            *)
(***************************************************************************)
Next ==
    \/ MainStart
    \/ MainParse
    \/ MainCheckFilter
    \/ MainCheckAction
    \/ MainMatchDict
    \/ MainAddMatched
    \/ MainDrainMatched
    \/ MainTermDict
    \/ MainAddTerminated
    \/ MainDrainTerminated
    \/ MainRunLoop
    \/ \E kind \in Kinds : RunLoopDispatch(kind)
    \/ CallbackNext
    \/ CallbackRunScript
    \/ ScriptExit
    \/ CallbackRelease
    \/ \E d \in Devices : DeviceArrive(d)
    \/ \E d \in Devices : DeviceDepart(d)

Spec == Init /\ [][Next]_vars

\* the steps of the process itself
ProgramNext ==
    \/ MainStart
    \/ MainParse
    \/ MainCheckFilter
    \/ MainCheckAction
    \/ MainMatchDict
    \/ MainAddMatched
    \/ MainDrainMatched
    \/ MainTermDict
    \/ MainAddTerminated
    \/ MainDrainTerminated
    \/ MainRunLoop
    \/ \E kind \in Kinds : RunLoopDispatch(kind)
    \/ CallbackNext
    \/ CallbackRunScript
    \/ ScriptExit
    \/ CallbackRelease

\* the process is scheduled and its run loop runs whenever it has something
\* to do; a child that ends makes system() return
\* The runs of the commands of FairCommandLines under that scheduling.
InitFair == Init /\ argv \in FairCommandLines

FairSpec == InitFair /\ [][Next]_vars /\ WF_vars(ProgramNext)

\* createMatchingDictionary on every combination of filters: main up to line
\* 167
InitCompile ==
    /\ argv \in FilterCommandLines
    /\ pc = "start"
    /\ i = 1
    /\ config = ZeroConfig
    /\ status = 0
    /\ matchDict = NullDict
    /\ termDict = NullDict
    /\ iterator = [matched |-> "uninit", terminated |-> "uninit"]
    /\ subQuery = [matched |-> NullDict, terminated |-> NullDict]
    /\ queue = [matched |-> <<>>, terminated |-> <<>>]
    /\ present = Devices
    /\ handles = <<>>
    /\ cb = Idle
    /\ script = "none"
    /\ sysret = "none"
    /\ batch = <<>>

NextCompile ==
    \/ MainStart
    \/ MainParse
    \/ MainCheckFilter
    \/ MainCheckAction
    \/ MainMatchDict

SpecCompile == InitCompile /\ [][NextCompile]_vars

(***************************************************************************)
(* Properties.                                                             *)
(***************************************************************************)
HandleIds == 1..Len(handles)

\* handle h waits in an iterator
Queued(h) == \E k \in Kinds : \E j \in 1..Len(queue[k]) : queue[k][j] = h

Failures == {"launch_failed", "exit_nonzero"}

\* main has parsed the whole command line into config
Parsed == ~IsHelp /\ pc \notin {"start", "parse"} /\ i >= argc

\* nothing of the notification service has been touched
NothingStarted ==
    /\ matchDict = NullDict
    /\ termDict = NullDict
    /\ subQuery = [matched |-> NullDict, terminated |-> NullDict]
    /\ iterator = [matched |-> "uninit", terminated |-> "uninit"]
    /\ handles = <<>>
    /\ cb = Idle
    /\ script = "none"
    /\ sysret = "none"

\* C1: when a callback has returned, run_script was invoked once for each of
\* the N handles its iterator yielded and each of them was released once,
\* whatever the script did and whether or not one is configured; no handle is
\* ever released twice and, between callbacks, every handle that left an
\* iterator has been released.
C1_BatchRunAndReleasedOnce ==
    /\ \A h \in HandleIds : handles[h].released <= 1 /\ handles[h].runs <= 1
    /\ \A j, k \in 1..Len(batch) : batch[j] = batch[k] => j = k
    /\ cb = Idle =>
          /\ \A j \in 1..Len(batch) :
                handles[batch[j]].runs = 1 /\ handles[batch[j]].released = 1
          /\ \A h \in HandleIds :
                ~Queued(h) => handles[h].runs = 1 /\ handles[h].released = 1

\* a callback returned from a batch of two handles, a script having failed
C1_Witness ==
    /\ cb = Idle
    /\ Len(batch) = 2
    /\ sysret = "launch_failed"
    /\ handles[batch[2]].launched # <<>>

\* none of the six filter fields is set
C2_NoneSet ==
    /\ config.vendorID = 0
    /\ config.productID = 0
    /\ config.usagePage = 0
    /\ config.usage = 0
    /\ config.productName = NULL
    /\ config.deviceAddress = NULL

\* C2: a parsed configuration with none of the six filter fields set gets no
\* further than the filter check: main returns non-zero with no dictionary
\* compiled, no notification registered and no script launched.
C2_NoFilterRejected ==
    (Parsed /\ C2_NoneSet) =>
        /\ pc \in {"check_filter", "exited"}
        /\ pc = "exited" => status # 0
        /\ NothingStarted

\* main returned 1 at the filter check, a script being configured
C2_Witness ==
    /\ pc = "exited"
    /\ status = 1
    /\ Parsed
    /\ C2_NoneSet
    /\ config.onConnectScript # NULL

\* neither script path is configured
C3_NoScript ==
    config.onConnectScript = NULL /\ config.onDisconnectScript = NULL

AfterCatchUp ==
    pc \in {"term_dict", "add_terminated", "drain_terminated", "run_loop",
            "monitoring"}

\* what run_script launches for an arrival
C4_ConnectLaunch ==
    IF config.onConnectScript = NULL
    THEN <<>>
    ELSE <<argv[config.onConnectScript]>>

\* C4: a handle for a device attached when the arrival notification was
\* registered is the only such handle of its device; once main is past the
\* catch-up call it has been given to run_script exactly once, by
\* deviceConnected called from main, before Monitoring, and it is never in an
\* iterator again.
C4_CatchUpOnce ==
    \A h \in HandleIds :
        handles[h].initial =>
            /\ handles[h].kind = "matched"
            /\ handles[h].runs <= 1
            /\ \A g \in HandleIds :
                  (handles[g].initial /\ handles[g].dev = handles[h].dev)
                      => g = h
            /\ AfterCatchUp =>
                  /\ handles[h].runs = 1
                  /\ handles[h].phase = "drain_matched"
                  /\ handles[h].by = "connect"
                  /\ handles[h].launched = C4_ConnectLaunch
                  /\ ~Queued(h)

\* Monitoring, the device attached at startup handled in catch-up and a later
\* arrival handled by the run loop
C4_Witness ==
    /\ pc = "monitoring"
    /\ \E h, g \in HandleIds :
          /\ handles[h].initial
          /\ handles[h].launched # <<>>
          /\ handles[h].phase = "drain_matched"
          /\ ~handles[g].initial
          /\ handles[g].kind = "matched"
          /\ handles[g].phase = "monitoring"
          /\ handles[g].runs = 1

\* device d has the value of every filter field that is set (a numeric field
\* is set when it holds an id, > 0; a string field when it is not NULL)
C5_Satisfies(d) ==
    /\ config.vendorID > 0 => DeviceProps(d).VendorID = config.vendorID
    /\ config.productID > 0 => DeviceProps(d).ProductID = config.productID
    /\ config.usagePage > 0 =>
          DeviceProps(d).PrimaryUsagePage = config.usagePage
    /\ config.usage > 0 => DeviceProps(d).PrimaryUsage = config.usage
    /\ config.productName # NULL =>
          DeviceProps(d).Product = argv[config.productName]
    /\ config.deviceAddress # NULL =>
          DeviceProps(d).DeviceAddress = argv[config.deviceAddress]

C5_Scenario ==
    argv = <<"--vendor-id", T1234, "--product-id", T5678, "--on-connect", TConn>>

Started == pc \notin {"start", "parse", "check_filter", "check_action", "exited"}

\* C7: system() returning a failure changes nothing but the callback's
\* position: the callback goes on to release the same handle, main stays
\* where it is, the iterators and notifications are untouched; every release
\* step releases the handle and goes back to IOIteratorNext; and once past
\* validation main never returns.
C7_FailureDoesNotPropagate ==
    [][ /\ Started => pc' # "exited"
        /\ (cb.pc = "system" /\ cb'.pc # "system" /\ sysret' \in Failures) =>
              /\ cb' = [cb EXCEPT !.pc = "release"]
              /\ pc' = pc
              /\ queue' = queue
              /\ subQuery' = subQuery
        /\ (cb.pc = "release" /\ cb' # cb) =>
              /\ cb' = [cb EXCEPT !.pc = "next"]
              /\ handles'[cb.service].released =
                    handles[cb.service].released + 1
              /\ pc' = pc
      ]_vars

\* in Monitoring, the first handle of a batch failed to launch and was
\* released, and the second handle of the batch is at run_script
C7_Witness ==
    /\ pc = "monitoring"
    /\ sysret = "launch_failed"
    /\ Len(batch) = 2
    /\ handles[batch[1]].launched # <<>>
    /\ handles[batch[1]].released = 1
    /\ cb.service = batch[2]
    /\ cb.pc = "run"
    /\ ScriptOf(cb.kind, config) # NULL

\* the keys of the filter fields that are set in cfg
C6_SetKeys(cfg) ==
    {k \in FilterKeys :
        \/ k = "VendorID" /\ cfg.vendorID > 0
        \/ k = "ProductID" /\ cfg.productID > 0
        \/ k = "PrimaryUsagePage" /\ cfg.usagePage > 0
        \/ k = "PrimaryUsage" /\ cfg.usage > 0
        \/ k = "Product" /\ cfg.productName # NULL
        \/ k = "DeviceAddress" /\ cfg.deviceAddress # NULL}

\* the configured value of the field with key k
C6_Value(cfg, args, k) ==
    CASE k = "VendorID" -> cfg.vendorID
      [] k = "ProductID" -> cfg.productID
      [] k = "PrimaryUsagePage" -> cfg.usagePage
      [] k = "PrimaryUsage" -> cfg.usage
      [] k = "Product" -> args[cfg.productName]
      [] k = "DeviceAddress" -> args[cfg.deviceAddress]

C6_Matched(dict) == {d \in Devices : Matches(d, dict)}

\* the command line a2 sets every field argv sets, to the same value
C6_Extends(a2) ==
    \A k \in C6_SetKeys(config) :
        /\ k \in C6_SetKeys(ConfigOf(a2))
        /\ C6_Value(ConfigOf(a2), a2, k) = C6_Value(config, argv, k)

\* C6: the dictionary createMatchingDictionary returns for a configuration
\* with a field set holds IOProviderClass and exactly the keys of the set
\* fields, each with the configured value; and the dictionary of any
\* configuration that sets the same fields to the same values, and maybe
\* more, matches no device this one does not match.
C6_QueryIsAndOfSetFields ==
    (pc = "add_matched" /\ matchDict # NullDict) =>
        /\ C6_SetKeys(config) # {} =>
              /\ DOMAIN matchDict = {"IOProviderClass"} \cup C6_SetKeys(config)
              /\ matchDict["IOProviderClass"] = "IOHIDUserDevice"
              /\ \A k \in C6_SetKeys(config) :
                    matchDict[k] = C6_Value(config, argv, k)
        /\ \A a2 \in FilterCommandLines :
              C6_Extends(a2) =>
                  C6_Matched(createMatchingDictionary(ConfigOf(a2), a2, BaseDict))
                      \subseteq C6_Matched(matchDict)

\* a dictionary of four filter keys that matches one device and not the other
C6_Witness ==
    /\ pc = "add_matched"
    /\ Cardinality(C6_SetKeys(config)) = 4
    /\ Cardinality(DOMAIN matchDict) = 5
    /\ C6_Matched(matchDict) = {"kbd"}

C8_Dispatched(h) == h \in HandleIds /\ ~Queued(h)

C9_BuildFailed ==
    \/ Started /\ pc # "match_dict" /\ matchDict = NullDict
    \/ /\ pc \in {"add_terminated", "drain_terminated", "run_loop", "monitoring"}
       /\ termDict = NullDict

\* C9: after createMatchingDictionary returned NULL the daemon does not reach
\* the run loop.
C9_BuildErrorAborts == C9_BuildFailed => pc \notin {"run_loop", "monitoring"}

\* the service refused the notification of `kind` for a dictionary that was
\* built
C10_Refused(kind) ==
    /\ ~Registered(kind)
    /\ IF kind = "matched"
       THEN Started /\ pc \notin {"match_dict", "add_matched"}
            /\ matchDict # NullDict
       ELSE pc \in {"drain_terminated", "run_loop", "monitoring"}
            /\ termDict # NullDict

\* C10: after a refused registration the callback is not called on the
\* iterator of that notification and the daemon does not reach the run loop.
C10_SubscriptionErrorAborts ==
    \A kind \in Kinds :
        C10_Refused(kind) =>
            /\ pc \notin {"run_loop", "monitoring"}
            /\ ~(cb.kind = Callback(kind) /\ pc = "drain_" \o kind)

\* the script configured for the event kind of handle h
C11_OwnScript(h) ==
    IF handles[h].kind = "matched"
    THEN config.onConnectScript
    ELSE config.onDisconnectScript

\* all that may be launched for handle h: its own script, once, if configured
C11_OwnLaunch(h) ==
    IF C11_OwnScript(h) = NULL THEN <<>> ELSE <<argv[C11_OwnScript(h)]>>

\* C11: a handle is given to run_script at most once and nothing is launched
\* for it but the script configured for its own event kind; once released,
\* the script of its kind was launched exactly once if one is configured and
\* nothing was launched otherwise.
C11_OneLaunchOfOwnScript ==
    \A h \in HandleIds :
        /\ handles[h].runs <= 1
        /\ handles[h].launched \in {<<>>, C11_OwnLaunch(h)}
        /\ handles[h].released >= 1 => handles[h].launched = C11_OwnLaunch(h)

\* C12: the daemon is in Monitoring only with both notifications registered
\* and the handles of the devices attached at registration run and released.
C12_MonitoringAfterBothRegistered ==
    pc = "monitoring" =>
        /\ Registered("matched")
        /\ Registered("terminated")
        /\ \A h \in HandleIds :
              handles[h].initial =>
                  handles[h].runs = 1 /\ handles[h].released = 1

\* once in Monitoring main stays there: CFRunLoopRun does not return
C12_MonitoringIsTerminal == [][pc = "monitoring" => pc' = "monitoring"]_vars

\* C13: handles are processed in the order delivered: every handle of the
\* batch before the last one yielded has been run and released, a batch
\* holds handles in the order they were queued, and when a handle has left
\* its iterator every handle of the same kind queued before it has been run
\* and released.
C13_DeliveryOrder ==
    /\ \A j \in 1..Len(batch) :
          j < Len(batch) =>
              /\ handles[batch[j]].runs = 1
              /\ handles[batch[j]].released = 1
              /\ batch[j] < batch[j + 1]
    /\ \A g, h \in HandleIds :
          (g < h /\ handles[g].kind = handles[h].kind /\ ~Queued(h)) =>
              /\ ~Queued(g)
              /\ handles[g].runs = 1
              /\ handles[g].released = 1

\* the second handle of a batch is being launched, the first one having been
\* launched and released
C13_Witness ==
    /\ Len(batch) = 2
    /\ cb.service = batch[2]
    /\ cb.pc = "system"
    /\ handles[batch[1]].launched # <<>>
    /\ handles[batch[1]].released = 1

\* the step starts a call of a callback
C14_Starts == cb' # cb /\ cb'.pc = "next" /\ cb'.service = 0

\* C14: a callback is called only when none is executing, from main's two
\* catch-up calls or from the run loop; while it executes, every step of the
\* callback state belongs to that call until it returns, main stays where it
\* is, and the only handle run, launched for or released is the one the
\* callback holds.
C14_OneCallbackAtATime ==
    [][ /\ C14_Starts => cb = Idle
        /\ (cb # Idle /\ cb' # cb) =>
              \/ cb' = Idle
              \/ cb'.kind = cb.kind /\ cb'.iter = cb.iter /\ ~C14_Starts
        /\ (cb # Idle /\ cb' # Idle) => pc' = pc
        /\ cb' # Idle =>
              pc' \in {"drain_matched", "drain_terminated", "monitoring"}
        /\ \A h \in HandleIds :
              handles'[h] # handles[h] => (cb # Idle /\ h = cb.service)
      ]_vars

\* in Monitoring a callback waits in system() while a handle of the other
\* notification is queued
C14_Witness ==
    /\ pc = "monitoring"
    /\ cb.pc = "system"
    /\ cb.iter = "matched"
    /\ queue["terminated"] # <<>>

\* the dictionary createMatchingDictionary builds from the parsed command line
C15_Compiled == createMatchingDictionary(ConfigOf(argv), argv, BaseDict)

C16_Options ==
    {"--vendor-id", "--product-id", "--name", "--address", "--usage-page",
     "--usage", "--on-connect", "--on-disconnect"}

\* the positions main reads a flag from
C16_FlagPositions == {k \in 1..Len(argv) : k % 2 = 1}

\* the command line is not the help invocation and has a flag that is no
\* option, or a last flag without a value
C16_Malformed ==
    /\ ~IsHelp
    /\ \/ Len(argv) % 2 = 1
       \/ \E k \in C16_FlagPositions : argv[k] \notin C16_Options

\* C16: with a malformed command line main returns non-zero from inside the
\* parse loop: it never reaches the filter or the action check, compiles no
\* dictionary, registers no notification and launches no script.
C16_MalformedRejected ==
    (C16_Malformed /\ pc \notin {"start", "parse"}) =>
        /\ pc = "exited"
        /\ status # 0
        /\ i < argc
        /\ NothingStarted

\* main returned 1 at an unknown flag that follows a filter and a script
C16_Witness ==
    /\ pc = "exited"
    /\ status = 1
    /\ C16_Malformed
    /\ Len(argv) % 2 = 0
    /\ config.vendorID = 1234
    /\ config.onConnectScript # NULL

\* the filter keys of a dictionary
C17_Constraints(dict) == DOMAIN dict \cap FilterKeys

\* C17: a registered notification has a dictionary with at least one of the
\* six filter keys, whatever the numeric and string values parsed; the daemon
\* never subscribes with IOProviderClass alone.
C17_QueryConstrains ==
    \A k \in Kinds : Registered(k) => C17_Constraints(subQuery[k]) # {}

\* the handles the dispatcher holds: taken from an iterator, not yet released
C18_Held == {h \in HandleIds : ~Queued(h) /\ handles[h].released = 0}

\* C18: the dispatcher holds at most one unreleased handle, the one the
\* executing callback took last; it holds none when the callback is about to
\* take the next handle and none when no callback is executing.
C18_AtMostOneHeld ==
    /\ Cardinality(C18_Held) <= 1
    /\ \A h \in C18_Held : cb # Idle /\ h = cb.service
    /\ cb.pc = "next" => C18_Held = {}
    /\ cb = Idle => C18_Held = {}

\* system() has returned a failure, the handle taken is still held and
\* another one waits in the same iterator
C18_Witness ==
    /\ cb.pc = "release"
    /\ sysret \in Failures
    /\ C18_Held = {cb.service}
    /\ Pending(cb.iter) # <<>>
=============================================================================
